---- MODULE Spec2Model ----
(***************************************************************************)
(* Model of pytimeode's evolvers (src/pytimeode/evolvers.py): EvolverBase, *)
(* EvolverSplit and EvolverABM, stepping a state that honours the IState   *)
(* interfaces of src/pytimeode/interfaces.py.                              *)
(*                                                                         *)
(* States are objects on a heap (identity matters: the ABM evolver         *)
(* recycles buffers).  The data of a state is one number; arithmetic is    *)
(* exact and carried out in the prime field of P elements, a homomorphic   *)
(* image of the rationals with denominators 2, 3, 48 and 170 that the      *)
(* coefficients of the code live in.  Times are counted in ticks, with dt  *)
(* an even number of ticks so that dt/2 is a whole number of ticks.        *)
(***************************************************************************)
EXTENDS Integers, Sequences, FiniteSets, TLC

VARIABLES
    pc,              \* position of the caller: "new", "idle", in evolve "first",
                     \* "loop", "end", and "failed" once a state has raised
    err,             \* outcome of the last call: "none", "AssertionError" or the
                     \* operation of the state that raised
    calls,           \* number of evolve calls started so far
    steps,           \* evolve: the argument steps of the running call
    kt,              \* evolve: number of do_step calls made by the running call
    t0,              \* evolve: self.t when the running call began
    copy,            \* constructor argument copy
    kind,            \* "ABM" or "Split"
    t,               \* self.t
    dt,              \* self.dt
    normalize,       \* self.normalize
    numexpr,         \* self.numexpr (the state provides INumexpr)
    no_runge_kutta,  \* self.no_runge_kutta
    ys,              \* EvolverABM.ys   (index 1 is the most recent)
    dys,             \* EvolverABM.dys
    dcps,            \* EvolverABM.dcps
    tmp,             \* EvolverABM._tmp (0 when absent)
    y,               \* EvolverSplit.y  (0 for an EvolverABM, whose y is ys[1])
    strategy,        \* state class: "linear", "potentials" or "general"
    nltmp,           \* EvolverSplit._nonlinear_tmp_state (0 when absent)
    heap,            \* the state objects: id -> [data, t, writeable] or NoState
    log,             \* calls made on states and on do_step during the running evolve
    unset,           \* EvolverABM: self.dys and self.dcps are None
    created,         \* number of states created by copy() and empty() so far
    max_copies,      \* largest number of states alive at the same time so far
    objs,            \* states of the three mixins the caller works with directly:
                     \* name -> [mixin, comps, t], comps the ids of the data arrays
    locks,           \* the `with state.lock:` blocks the caller is in, innermost last
    ret,             \* the last call the caller made on a state and its outcome
    nops             \* number of calls the caller made on states

vars == <<pc, err, calls, steps, kt, t0, copy, kind, t, dt, normalize, numexpr,
          no_runge_kutta, ys, dys, dcps, tmp, y, strategy, nltmp, heap, log,
          unset, created, max_copies, objs, locks, ret, nops>>

\* what only an evolver changes
evars == <<pc, err, calls, steps, kt, t0, copy, kind, t, dt, normalize, numexpr,
           no_runge_kutta, ys, dys, dcps, tmp, y, strategy, nltmp, unset>>

----------------------------------------------------------------------------
(* Bounds of the model *)

\* number of heap slots for state objects
NBuf == 16
\* largest steps argument passed to evolve
MaxSteps == 4
\* number of evolve calls made on one evolver
MaxEvolves == 2
\* the calls made on the states of a scenario, and the depth of lock blocks
MaxOps == 2
MaxLocks == 2

\* the steps argument left at its default
None == -1
\* the id of the state the caller passes to the constructor
Y_IN == 1

----------------------------------------------------------------------------
(* Exact arithmetic on state data *)

\* number of elements of the prime field the data live in
P == 101

Mod(x) == x % P
Add(a, b) == (a + b) % P
Neg(a) == (P - (a % P)) % P
Sub(a, b) == Add(a, Neg(b))
Mul(a, b) == ((a % P) * (b % P)) % P
Inv(a) == CHOOSE x \in 1..(P - 1) : (x * (a % P)) % P = 1
Div(a, b) == Mul(a, Inv(b))

Inv2 == Inv(2)
Inv3 == Inv(3)
Inv6 == Inv(6)
Inv48 == Inv(48)
Inv170 == Inv(170)

Front(s) == SubSeq(s, 1, Len(s) - 1)
Last(s) == s[Len(s)]
Range(s) == {s[i] : i \in 1..Len(s)}

----------------------------------------------------------------------------
(* The state class: the operations a state supplies to the evolvers *)

\* a heap slot holding no state
NoState == [data |-> -1, t |-> -1, writeable |-> FALSE]

\* IStateForABMEvolvers.compute_dy: dy/dt of a state with data v at time tt
compute_dy(v, tt) == Add(Add(Mul(v, v), Mul(3, v)), Mod(tt + 1))

\* IStateWithNormalize.normalize: a projection of the data
normalized(v) == v - (v % 4)

\* IStateForSplitEvolvers.apply_exp_K on data v
exp_K(v, d, tt) == Add(Mul(v, Mod(d + 1)), Mod(tt))

\* IStatePotentialsForSplitEvolvers.get_potentials of data v at time tt
potentials_of(v, tt) == Add(Mul(2, v), Mod(tt))

\* apply_exp_V on data v with the potential pot
exp_V(v, d, pot) == Add(Mul(v, Mod(d + 2)), Mul(pot, Mod(d)))

\* the potential a linear state uses (depends on the time only)
linear_potential(tt) == Mod(3 * tt + 1)

\* the potential a general nonlinear state derives from the data w of `state`
state_potential(w, tt) == Add(Mul(w, w), Mod(tt))

\* a name the caller has bound to no state
NoObj == [mixin |-> "none", comps |-> <<>>, t |-> 0]
NoObjs == [n \in {"a", "b", "r"} |-> NoObj]

\* no call made yet
NoCall == [op |-> "none", on |-> "", res |-> "", err |-> "none"]

----------------------------------------------------------------------------
(* The evolver object as a record, and the heap *)

Self == [kind |-> kind, t |-> t, dt |-> dt, normalize |-> normalize,
         numexpr |-> numexpr, no_runge_kutta |-> no_runge_kutta,
         ys |-> ys, dys |-> dys, dcps |-> dcps, tmp |-> tmp, y |-> y,
         strategy |-> strategy, nltmp |-> nltmp, heap |-> heap, log |-> log,
         unset |-> unset, created |-> created, max_copies |-> max_copies,
         objs |-> objs, locks |-> locks, V |-> 0]

Commit(e) ==
    /\ kind' = e.kind
    /\ t' = e.t
    /\ dt' = e.dt
    /\ normalize' = e.normalize
    /\ numexpr' = e.numexpr
    /\ no_runge_kutta' = e.no_runge_kutta
    /\ ys' = e.ys
    /\ dys' = e.dys
    /\ dcps' = e.dcps
    /\ tmp' = e.tmp
    /\ y' = e.y
    /\ strategy' = e.strategy
    /\ nltmp' = e.nltmp
    /\ heap' = e.heap
    /\ log' = e.log
    /\ unset' = e.unset
    /\ created' = e.created
    /\ max_copies' = e.max_copies
    /\ objs' = e.objs
    /\ locks' = e.locks

\* the state objects the evolver or the caller still refers to
Referenced(e) ==
    (Range(e.ys) \cup Range(e.dys) \cup Range(e.dcps)
        \cup {e.tmp, e.y, e.nltmp, Y_IN}
        \cup UNION {Range(e.objs[n].comps) : n \in DOMAIN e.objs}) \ {0}

\* reference counting: a state nobody refers to is deleted
Collect(e) ==
    [e EXCEPT !.heap = [i \in 1..NBuf |->
        IF i \in Referenced(e) THEN e.heap[i] ELSE NoState]]

Live(e) == {i \in 1..NBuf : e.heap[i] # NoState}

\* the id the n-th state created from now on gets: the n-th free slot
NewId(e, n) == CHOOSE i \in 1..NBuf :
    /\ e.heap[i] = NoState
    /\ Cardinality({j \in 1..(i - 1) : e.heap[j] = NoState}) = n - 1

Data(e, s) == e.heap[s].data

SetData(e, s, v) == [e EXCEPT !.heap[s].data = v]

Logged(e, entry) == [e EXCEPT !.log = Append(@, entry)]

\* the temporary stays alive until the step is over
Del_late(e, s) == e

\* del name: the last reference to a temporary goes away
Del(e, s) == [e EXCEPT !.heap[s] = NoState]

Max(a, b) == IF a >= b THEN a ELSE b

\* a state has been created: the count of creations and the peak of states
\* alive at the same time are brought up to date
Counted(e) ==
    [e EXCEPT !.created = @ + 1,
              !.max_copies = Max(@, Cardinality(Live(e)))]

\* ArrayStateMixin.copy: a new writeable state new with the data and t of s
Copy(e, s, new) ==
    Counted([e EXCEPT !.heap[new] = [e.heap[s] EXCEPT !.writeable = TRUE]])

\* ArrayStateMixin.empty: a new writeable state new with uninitialized data
Empty(e, s, new) ==
    Counted([e EXCEPT !.heap[new] =
                [data |-> P, t |-> e.heap[s].t, writeable |-> TRUE]])

\* ArrayStateMixin.axpy: s += a*x
axpy(e, s, x, a) == SetData(e, s, Add(Data(e, s), Mul(a, Data(e, x))))

\* ArrayStateMixin.scale: s *= f
scale(e, s, f) == SetData(e, s, Mul(Data(e, s), f))

\* StateMixin.__mul__: f*s as the new state new
Times(e, s, f, new) == scale(Copy(e, s, new), new, f)

----------------------------------------------------------------------------
(* EvolverBase *)

Entry(op, on, d, tt, arg) ==
    [op |-> op, on |-> on, dt |-> d, t |-> tt, arg |-> arg,
     first |-> FALSE, final |-> FALSE, writeable |-> TRUE]

\* StateMixin.lock entered: the flag is cleared
lock_enter(e, s) == [e EXCEPT !.heap[s].writeable = FALSE]

\* StateMixin.lock left (finally): the flag saved on entry is put back
lock_exit(e, s, saved) == [e EXCEPT !.heap[s].writeable = saved]

\* y.compute_dy(t=tt, dy=dy) called on s: the call is logged with the
\* writeable flag s has during the call, the derivative is stored in dy
call_compute_dy(e, s, tt, dy) ==
    SetData(Logged(e, [Entry("compute_dy", s, 0, tt, dy)
                         EXCEPT !.writeable = e.heap[s].writeable]),
            dy, compute_dy(Data(e, s), tt))

\* EvolverBase.get_dy with dy given: dy = y.compute_dy(t=tt, dy=dy) under y.lock
get_dy(e, s, tt, dy) ==
    lock_exit(call_compute_dy(lock_enter(e, s), s, tt, dy), s,
              e.heap[s].writeable)

\* the copy argument is ignored: the evolver works on the caller's state
base_y_shared(e, cp) == Y_IN

\* EvolverBase.__init__ and EvolverBase.init: self.y = y.copy() if copy else y,
\* then y.t = self.t.  y0 is the id of the evolver's state.
base_y(e, cp) == IF cp THEN NewId(e, 1) ELSE Y_IN

base_init(e, cp) ==
    [(IF cp THEN Copy(e, Y_IN, base_y(e, cp)) ELSE e)
        EXCEPT !.heap[base_y(e, cp)].t = e.t]

----------------------------------------------------------------------------
(* The mixins: states with one data array (ArrayStateMixin), with a list of *)
(* data arrays (ArraysStateMixin) and with a list of states                *)
(* (MultiStateMixin).  A state is [mixin, comps, t]; comps lists the heap   *)
(* ids of its data arrays, or of its sub-states, each of which has one      *)
(* data array.                                                              *)

\* the outcome of a call on a state: the heap and the names afterwards, and
\* the exception raised, if any
Ok(e) == [e |-> e, err |-> "none"]
Raise(e, x) == [e |-> e, err |-> x]

Comps(e, o) == e.objs[o].comps

\* ArrayStateMixin.writeable and StatesMixin.writeable (the getters):
\* self.data.flags.writeable, all(... for key in self)
st_writeable(e, o) == \A k \in 1..Len(Comps(e, o)) : e.heap[Comps(e, o)[k]].writeable

\* ArrayStateMixin.writeable and StatesMixin.writeable (the setters)
st_set_writeable(e, o, b) ==
    [e EXCEPT !.heap = [i \in 1..NBuf |->
        IF i \in Range(Comps(e, o)) THEN [e.heap[i] EXCEPT !.writeable = b]
        ELSE e.heap[i]]]

\* a new numpy array new holding v: new arrays are writeable
new_array(e, new, v) ==
    [e EXCEPT !.heap[new] = [data |-> v, t |-> 0, writeable |-> TRUE]]

\* self[key].__iadd__(a*x[key]) for the keys from k on.  In a MultiStateMixin
\* a*x[key] is a state, made by copy() and scale(), that is dropped afterwards.
RECURSIVE st_axpy_from(_, _, _, _, _)
st_axpy_from(e, o, x, a, k) ==
    IF k > Len(Comps(e, o)) THEN e
    ELSE st_axpy_from(
            IF e.objs[o].mixin = "Multi"
            THEN Del(axpy(Times(e, Comps(e, x)[k], a, NewId(e, 1)),
                          Comps(e, o)[k], NewId(e, 1), 1),
                     NewId(e, 1))
            ELSE axpy(e, Comps(e, o)[k], Comps(e, x)[k], a),
            o, x, a, k + 1)

\* the assertion is left out
st_axpy_unchecked(e, o, x, a) == Ok(st_axpy_from(e, o, x, a, 1))

\* axpy of the three mixins: assert self.writeable, then self += a*x
st_axpy(e, o, x, a) ==
    IF ~st_writeable(e, o) THEN Raise(e, "AssertionError")
    ELSE Ok(st_axpy_from(e, o, x, a, 1))

\* self[key].__imul__(f) for the keys from k on
RECURSIVE st_scale_from(_, _, _, _)
st_scale_from(e, o, f, k) ==
    IF k > Len(Comps(e, o)) THEN e
    ELSE st_scale_from(scale(e, Comps(e, o)[k], f), o, f, k + 1)

\* scale of the three mixins: assert self.writeable, then self *= f
st_scale(e, o, f) ==
    IF ~st_writeable(e, o) THEN Raise(e, "AssertionError")
    ELSE Ok(st_scale_from(e, o, f, 1))

\* self[key][...] = y[key] for the keys from k on
RECURSIVE st_assign_from(_, _, _, _)
st_assign_from(e, o, x, k) ==
    IF k > Len(Comps(e, o)) THEN e
    ELSE st_assign_from(SetData(e, Comps(e, o)[k], Data(e, Comps(e, x)[k])),
                        o, x, k + 1)

\* copy_from of the three mixins: assert self.writeable, the data of y are
\* written into the arrays of self, then
\* self.__dict__.update(y.__dict__, data=self.data)
st_copy_from(e, o, x) ==
    IF ~st_writeable(e, o) THEN Raise(e, "AssertionError")
    ELSE Ok([st_assign_from(e, o, x, 1) EXCEPT !.objs[o].t = e.objs[x].t])

\* s[...] = v on an ArrayStateMixin (ArrayStateMixin.__setitem__) and
\* s[k][...] = v on the others (the array, or the sub-state's __setitem__):
\* numpy refuses to write into an array whose writeable flag is cleared
st_setitem(e, o, k, v) ==
    IF ~e.heap[Comps(e, o)[k]].writeable THEN Raise(e, "ValueError")
    ELSE Ok(SetData(e, Comps(e, o)[k], v))

\* s[k] = value on an ArraysStateMixin or MultiStateMixin
\* (StatesMixin.__setitem__): self.data[key] = value, value a new array or state
st_replace(e, o, k, v) ==
    Ok([new_array(e, NewId(e, 1), v) EXCEPT !.objs[o].comps[k] = NewId(e, 1)])


\* copy.deepcopy(self.data)[key], a new writeable array, for the keys from k
\* on, as the data of r; ArraysStateMixin.copy then writes self[key] into it
RECURSIVE st_copy_from_key(_, _, _, _)
st_copy_from_key(e, o, r, k) ==
    IF k > Len(Comps(e, o)) THEN e
    ELSE st_copy_from_key(
            [SetData(Copy(e, Comps(e, o)[k], NewId(e, 1)), NewId(e, 1),
                     Data(e, Comps(e, o)[k]))
                EXCEPT !.objs[r].comps = Append(@, NewId(e, 1))],
            o, r, k + 1)

\* the copy keeps the arrays of the original
st_copy_shared(e, o, r) == [e EXCEPT !.objs[r] = e.objs[o]]

\* copy of the three mixins: y = copy.copy(self), y.data a deep copy
st_copy(e, o, r) ==
    st_copy_from_key([e EXCEPT !.objs[r] = [e.objs[o] EXCEPT !.comps = <<>>]],
                     o, r, 1)

\* y[key] = np.empty_like(self[key]), y[key] = self[key].empty() for the keys
\* from k on
RECURSIVE st_empty_from_key(_, _, _, _)
st_empty_from_key(e, o, r, k) ==
    IF k > Len(Comps(e, o)) THEN e
    ELSE st_empty_from_key(
            [Empty(e, Comps(e, o)[k], NewId(e, 1))
                EXCEPT !.objs[r].comps[k] = NewId(e, 1)],
            o, r, k + 1)

\* empty of the three mixins: y = copy.copy(self), y.data = copy.copy(self.data)
\* (the list is new, its entries are shared), then every entry is replaced
st_empty(e, o, r) ==
    st_empty_from_key([e EXCEPT !.objs[r] = e.objs[o]], o, r, 1)

\* StateMixin.__add__: res = self.copy(); res.axpy(y)
st_add(e, o, x, r) == st_axpy(st_copy(e, o, r), r, x, 1)

\* the sign is lost
st_sub_plus(e, o, x, r) == st_axpy(st_copy(e, o, r), r, x, 1)

\* StateMixin.__sub__: res = self.copy(); res.axpy(y, -1)
st_sub(e, o, x, r) == st_axpy(st_copy(e, o, r), r, x, Neg(1))

\* StateMixin.__mul__ and __rmul__: res = self.copy(); res.scale(f)
st_mul(e, o, f, r) == st_scale(st_copy(e, o, r), r, f)

\* StateMixin.__truediv__: res = self.copy(); res.scale(1./f)
st_truediv(e, o, f, r) == st_scale(st_copy(e, o, r), r, Inv(f))

\* StateMixin.__neg__: -1*self
st_neg(e, o, r) == st_mul(e, o, Neg(1), r)

\* StateMixin.__iadd__: self.axpy(y)
st_iadd(e, o, x) == st_axpy(e, o, x, 1)

\* StateMixin.__isub__: self.axpy(y, a=-1)
st_isub(e, o, x) == st_axpy(e, o, x, Neg(1))

\* StateMixin.__imul__: self.scale(f)
st_imul(e, o, f) == st_scale(e, o, f)

\* StateMixin.__itruediv__: self.scale(1./f)
st_itruediv(e, o, f) == st_scale(e, o, Inv(f))

\* StateMixin.lock entered: writeable = self.writeable is saved,
\* self.writeable = False
st_lock_enter(e, o) ==
    [st_set_writeable(e, o, FALSE)
        EXCEPT !.locks = Append(@, [obj |-> o, saved |-> st_writeable(e, o)])]

\* the lock leaves the state writeable
st_lock_exit_open(e) ==
    [st_set_writeable(e, Last(e.locks).obj, TRUE)
        EXCEPT !.locks = Front(@)]

\* StateMixin.lock left (finally): self.writeable = writeable
st_lock_exit(e) ==
    [st_set_writeable(e, Last(e.locks).obj, Last(e.locks).saved)
        EXCEPT !.locks = Front(@)]

\* y.compute_dy(t=tt, dy=dy) of a state o: the derivative of every array is
\* stored in the array of dy, for the keys from k on
RECURSIVE st_compute_dy(_, _, _, _, _)
st_compute_dy(e, o, tt, dy, k) ==
    IF k > Len(Comps(e, o)) THEN e
    ELSE st_compute_dy(
            call_compute_dy(e, Comps(e, o)[k], tt, Comps(e, dy)[k]),
            o, tt, dy, k + 1)

\* y.compute_dy raises: the call is logged, dy is left as it was
st_compute_dy_raises(e, o, tt) ==
    Logged(e, [Entry("compute_dy", Comps(e, o)[1], 0, tt, 0)
                 EXCEPT !.writeable = st_writeable(e, o)])

\* EvolverBase.get_dy(y, t) of a state o: dy = y.empty(), then
\* with y.lock: dy = y.compute_dy(t=t, dy=dy)
st_get_dy(e, o, tt, dy) ==
    Ok(st_lock_exit(st_compute_dy(st_lock_enter(st_empty(e, o, dy), o),
                                  o, tt, dy, 1)))

\* EvolverBase.get_dy(y, t) when y.compute_dy raises: the lock is left on the
\* way out
st_get_dy_raises(e, o, tt, dy) ==
    Raise([st_lock_exit(st_compute_dy_raises(
                st_lock_enter(st_empty(e, o, dy), o), o, tt))
             EXCEPT !.objs[dy] = e.objs[dy]],
          "compute_dy")

----------------------------------------------------------------------------
(* EvolverABM *)

\* the second predictor coefficient with the wrong sign
ap_sign(h) == LET c == Mul(h, Inv48)
              IN <<Mul(c, 119), Mul(c, 99), Mul(c, 69), Mul(c, Neg(17))>>

\* self._ap = h/48 * [119, -99, 69, -17]
ap(h) == LET c == Mul(h, Inv48)
         IN <<Mul(c, 119), Mul(c, Neg(99)), Mul(c, 69), Mul(c, Neg(17))>>

\* _tmp = h * 161./48./170.
abm_tmp(h) == Mul(Mul(Mul(h, 161), Inv48), Inv170)

\* self._am = _tmp * 17
am(h) == Mul(abm_tmp(h), 17)

\* self._ac = _tmp * [-68, 102, -68, 17]
ac(h) == LET c == abm_tmp(h)
         IN <<Mul(c, Neg(68)), Mul(c, 102), Mul(c, Neg(68)), Mul(c, 17)>>

\* self._expr_m: (y0+y1)/2 + h/48*(119*dy0-99*dy1+69*dy2-17*dy3) + dcp0
expr_m(h, y0, y1, dy0, dy1, dy2, dy3, dcp0) ==
    Add(Add(Mul(Add(y0, y1), Inv2),
            Mul(Mul(h, Inv48),
                Sub(Add(Sub(Mul(119, dy0), Mul(99, dy1)), Mul(69, dy2)),
                    Mul(17, dy3)))),
        dcp0)

\* self._expr_dcp: h*161/48/170*(17*dm-68*dy0+102*dy1-68*dy2+17*dy3)
expr_dcp(h, dm, dy0, dy1, dy2, dy3) ==
    Mul(Mul(Mul(Mul(h, 161), Inv48), Inv170),
        Add(Sub(Add(Sub(Mul(17, dm), Mul(68, dy0)), Mul(102, dy1)),
                Mul(68, dy2)),
            Mul(17, dy3)))

\* self._expr_y: m + dcp - dcp0
expr_y(m, dcp, dcp0) == Sub(Add(m, dcp), dcp0)

\* the four derivatives are one object: dys = [y0*0]*4
abm_init_stationary_shared(e, y0) ==
    LET n1 == Copy(e, y0, NewId(e, 1))
        n2 == Times(n1, y0, 0, NewId(e, 2))
        n3 == Times(n2, NewId(e, 1), 0, NewId(e, 3))
        n4 == Times(n3, y0, 0, NewId(e, 4))
    IN [n4 EXCEPT !.ys = <<y0, NewId(e, 1)>>,
                  !.dcps = <<NewId(e, 2), NewId(e, 3)>>,
                  !.dys = <<NewId(e, 4), NewId(e, 4), NewId(e, 4), NewId(e, 4)>>]

\* only three derivatives are seeded
abm_init_stationary_three(e, y0) ==
    LET n1 == Copy(e, y0, NewId(e, 1))
        n2 == Times(n1, y0, 0, NewId(e, 2))
        n3 == Times(n2, NewId(e, 1), 0, NewId(e, 3))
        n4 == Times(n3, y0, 0, NewId(e, 4))
        n5 == Times(n4, y0, 0, NewId(e, 5))
        n6 == Times(n5, y0, 0, NewId(e, 6))
    IN [n6 EXCEPT !.ys = <<y0, NewId(e, 1)>>,
                  !.dcps = <<NewId(e, 2), NewId(e, 3)>>,
                  !.dys = <<NewId(e, 4), NewId(e, 5), NewId(e, 6)>>]

\* EvolverABM.init with no_runge_kutta: ys = [y0, y0.copy()],
\* dcps = [_y*(161/170*0) for _y in ys], dys = [_y*0 for _y in [y0]*4]
abm_init_stationary(e, y0) ==
    LET n1 == Copy(e, y0, NewId(e, 1))
        n2 == Times(n1, y0, 0, NewId(e, 2))
        n3 == Times(n2, NewId(e, 1), 0, NewId(e, 3))
        n4 == Times(n3, y0, 0, NewId(e, 4))
        n5 == Times(n4, y0, 0, NewId(e, 5))
        n6 == Times(n5, y0, 0, NewId(e, 6))
        n7 == Times(n6, y0, 0, NewId(e, 7))
    IN [n7 EXCEPT !.ys = <<y0, NewId(e, 1)>>,
                  !.dcps = <<NewId(e, 2), NewId(e, 3)>>,
                  !.dys = <<NewId(e, 4), NewId(e, 5), NewId(e, 6), NewId(e, 7)>>]

\* EvolverABM.init otherwise: ys = [y0], dcps = [161/170*0*y0], dys = []
abm_init_bootstrap(e, y0) ==
    [Times(e, y0, 0, NewId(e, 1)) EXCEPT
        !.ys = <<y0>>, !.dcps = <<NewId(e, 1)>>, !.dys = <<>>]

\* the scratch state is allocated whether or not the fused path is used
abm_init_tmp_always(e) ==
    [Copy(e, e.ys[1], NewId(e, 1)) EXCEPT !.tmp = NewId(e, 1)]

\* if self.numexpr: self._tmp = self.y.copy()
abm_init_tmp(e) ==
    IF e.numexpr
    THEN [Copy(e, e.ys[1], NewId(e, 1)) EXCEPT !.tmp = NewId(e, 1)]
    ELSE e

\* EvolverABM.__init__ followed by EvolverABM.init
abm_init(e, cp) ==
    abm_init_tmp(IF e.no_runge_kutta
                 THEN abm_init_stationary(base_init(e, cp), base_y(e, cp))
                 ELSE abm_init_bootstrap(base_init(e, cp), base_y(e, cp)))

\* IStateWithNormalize.normalize called on s
do_normalize(e, s) ==
    SetData(Logged(e, Entry("normalize", s, 0, 0, 0)), s,
            normalized(Data(e, s)))

\* m.apply(self._expr_m, y0=y0, y1=ys[0], dy0=dys[0], ..., dcp0=dcps[0]): the
\* value of the fused expression on the states as they are is stored in m
apply_expr_m(e, m, h, y0, y1, dy, dcp0) ==
    SetData(e, m, expr_m(h, Data(e, y0), Data(e, y1), Data(e, dy[1]),
                         Data(e, dy[2]), Data(e, dy[3]), Data(e, dy[4]),
                         Data(e, dcp0)))

\* dcp.apply(self._expr_dcp, dm=dm, dy0=dys[0], ..., dy3=dys[3])
apply_expr_dcp(e, dcp, h, dm, dy) ==
    SetData(e, dcp, expr_dcp(h, Data(e, dm), Data(e, dy[1]), Data(e, dy[2]),
                             Data(e, dy[3]), Data(e, dy[4])))

\* y.apply(self._expr_y, m=m, dcp=dcp, dcp0=dcps[0])
apply_expr_y(e, yy, m, dcp, dcp0) ==
    SetData(e, yy, expr_y(Data(e, m), Data(e, dcp), Data(e, dcp0)))

\* A step gives the evolver after the step (done) and, for every call on a
\* state that may raise, the evolver as it is when that call raises (raises).
Raising(op, e) == <<[op |-> op, e |-> e]>>

\* a half step as long as a whole one
half_whole(d) == d

\* 0.5*dt and h/2. (dt is an even number of ticks)
half(d) == d \div 2

\* the history of states is never truncated
first_two_all(s) == s

\* the two oldest states are kept: self.ys[-2:]
first_two_last(s) == SubSeq(s, IF Len(s) < 2 THEN 1 ELSE Len(s) - 1, Len(s))

\* three previous steps are kept
first_two_three(s) == SubSeq(s, 1, IF Len(s) < 3 THEN Len(s) ELSE 3)

\* self.ys[:2]
first_two(s) == SubSeq(s, 1, IF Len(s) < 2 THEN Len(s) ELSE 2)

\* the second stage is weighted like the first
rk_third_sixth(h) == Mul(h, Inv6)

\* h/3., the weight of the folded second and third stages: y.axpy(f1, h/3.)
rk_third(h) == Mul(h, Inv3)

\* EvolverABM.do_step_runge_kutta (the active branch)
do_step_runge_kutta(e) ==
    LET tt == e.t
        d == e.dt
        h == Mod(e.dt)
        \* y = self.ys[0].copy()
        yy == NewId(e, 1)
        a0 == Copy(Logged(e, Entry("do_step_runge_kutta", 0, 0, 0, 0)),
                   e.ys[1], yy)
        \* if len(self.dys) < len(self.ys):
        \*     dy = self.get_dy(y=y, t=self.t); dys.insert(0, dy)
        \* else: dy = self.dys[0]
        need == Len(e.dys) < Len(e.ys)
        dy == IF need THEN NewId(e, 2) ELSE e.dys[1]
        r1 == Empty(a0, yy, dy)
        a1 == IF need
              THEN [get_dy(r1, yy, tt, dy) EXCEPT !.dys = <<dy>> \o @]
              ELSE a0
        f0 == dy
        a2 == axpy(a1, yy, dy, Mul(h, Inv2))
        \* f1 = self.get_dy(y, t=t + h/2.)
        f1 == NewId(e, 3)
        r2 == Empty(a2, yy, f1)
        a3 == get_dy(r2, yy, tt + half(d), f1)
        a4 == axpy(a3, yy, dy, Neg(Mul(h, Inv2)))
        a5 == axpy(a4, yy, f1, Mul(h, Inv2))
        \* f2 = self.get_dy(y, t=t + h/2.)
        f2 == NewId(e, 4)
        r3 == Empty(a5, yy, f2)
        a6 == get_dy(r3, yy, tt + half(d), f2)
        a7 == axpy(a6, yy, f1, Neg(Mul(h, Inv2)))
        a8 == axpy(a7, yy, f2, h)
        r4 == axpy(a8, f1, f2, Neg(2))
        \* f3 = self.get_dy(y, dy=f2, t=t + h)
        f3 == f2
        a10 == get_dy(r4, yy, tt + d, f2)
        a11 == axpy(a10, yy, f1, rk_third(h))
        a12 == axpy(a11, yy, f0, Mul(h, Inv6))
        a13 == axpy(a12, yy, f3, Mul(h, Inv6))
        \* del f0, f1, f3
        r5 == Del(Del(a13, f1), f3)
        a15 == IF e.normalize THEN do_normalize(r5, yy) ELSE r5
        \* self.t += h; dy = self.get_dy(y=y, t=self.t)
        dyn == NewId(e, 5)
        r6 == Empty([a15 EXCEPT !.t = tt + d], yy, dyn)
        a17 == get_dy(r6, yy, tt + d, dyn)
    IN [done |-> [a17 EXCEPT !.ys = <<yy>> \o @, !.dys = <<dyn>> \o @],
        raises |-> (IF need THEN Raising("compute_dy", r1) ELSE <<>>)
                   \o Raising("compute_dy", r2) \o Raising("compute_dy", r3)
                   \o Raising("compute_dy", r4)
                   \o (IF e.normalize THEN Raising("normalize", r5) ELSE <<>>)
                   \o Raising("compute_dy", r6)]

\* EvolverABM.do_step_ABM
do_step_ABM(e) ==
    LET tt == e.t
        d == e.dt
        \* y = ys.pop(): ys[0] stays the first entry of ys
        yy == Last(e.ys)
        a0 == [Logged(e, Entry("do_step_ABM", 0, 0, 0, 0))
                 EXCEPT !.ys = Front(@)]
        a1 == scale(a0, yy, Inv2)
        a2 == axpy(a1, yy, e.ys[1], Inv2)
        a3 == axpy(a2, yy, e.dys[1], ap(Mod(d))[1])
        a4 == axpy(a3, yy, e.dys[2], ap(Mod(d))[2])
        a5 == axpy(a4, yy, e.dys[3], ap(Mod(d))[3])
        a6 == axpy(a5, yy, e.dys[4], ap(Mod(d))[4])
        a7 == axpy(a6, yy, e.dcps[1], 1)
        \* dcp = dcps.pop(); dcp = self.get_dy(y=y, t=t+dt, dy=dcp)
        dcp == Last(e.dcps)
        r1 == [a7 EXCEPT !.dcps = Front(@)]
        a8 == get_dy(r1, yy, tt + d, dcp)
        a9 == scale(a8, dcp, am(Mod(d)))
        a10 == axpy(a9, dcp, e.dys[1], ac(Mod(d))[1])
        a11 == axpy(a10, dcp, e.dys[2], ac(Mod(d))[2])
        a12 == axpy(a11, dcp, e.dys[3], ac(Mod(d))[3])
        a13 == axpy(a12, dcp, e.dys[4], ac(Mod(d))[4])
        a14 == axpy(a13, yy, dcp, 1)
        a15 == axpy(a14, yy, e.dcps[1], Neg(1))
        \* t += dt; dy = dys.pop(); dy = self.get_dy(y=y, t=t, dy=dy)
        dy == Last(e.dys)
        r2 == [a15 EXCEPT !.dys = Front(@)]
        a16 == get_dy(r2, yy, tt + d, dy)
        a17 == IF e.normalize THEN do_normalize(a16, yy) ELSE a16
    IN [done |-> [a17 EXCEPT !.ys = <<yy>> \o @, !.dys = <<dy>> \o @,
                             !.dcps = <<dcp>> \o @, !.t = tt + d],
        raises |-> Raising("compute_dy", r1) \o Raising("compute_dy", r2)
                   \o (IF e.normalize THEN Raising("normalize", a16) ELSE <<>>)]

\* EvolverABM.do_step_ABM_numexpr with self.numexpr set
do_step_ABM_fused(e) ==
    LET tt == e.t
        d == e.dt
        h == Mod(e.dt)
        \* y0 = ys.pop(); m = dcps.pop(): ys[0] and dcps[0] stay in front
        y0 == Last(e.ys)
        y1 == e.ys[1]
        m == Last(e.dcps)
        dcp0 == e.dcps[1]
        a0 == [Logged(e, Entry("do_step_ABM_numexpr", 0, 0, 0, 0))
                 EXCEPT !.ys = Front(@), !.dcps = Front(@)]
        a1 == apply_expr_m(a0, m, h, y0, y1, e.dys, dcp0)
        dcp == y0
        \* dm = self._tmp; dm = self.get_dy(y=m, t=t+dt, dy=dm)
        dm == e.tmp
        a2 == get_dy(a1, m, tt + d, dm)
        a3 == apply_expr_dcp(a2, dcp, h, dm, e.dys)
        yy == dm
        a4 == apply_expr_y(a3, yy, m, dcp, dcp0)
        a5 == IF e.normalize THEN do_normalize(a4, yy) ELSE a4
        \* self._tmp = m; t += dt; dy = dys.pop()
        dy == Last(e.dys)
        r3 == [a5 EXCEPT !.tmp = m, !.dys = Front(@)]
        \* dy = self.get_dy(y=y, t=t, dy=dy)
        a7 == get_dy(r3, yy, tt + d, dy)
    IN [done |-> [a7 EXCEPT !.ys = <<yy>> \o @, !.dys = <<dy>> \o @,
                            !.dcps = <<dcp>> \o @, !.t = tt + d],
        raises |-> Raising("compute_dy", a1)
                   \o (IF e.normalize THEN Raising("normalize", a4) ELSE <<>>)
                   \o Raising("compute_dy", r3)]

\* EvolverABM.do_step_ABM_numexpr
do_step_ABM_numexpr(e) ==
    IF ~e.numexpr THEN do_step_ABM(e) ELSE do_step_ABM_fused(e)

\* self.dcps = [0*_y for _y in self.ys]
fresh_dcps(e) ==
    [Times(Times(e, e.ys[1], 0, NewId(e, 1)), e.ys[2], 0, NewId(e, 2))
        EXCEPT !.dcps = <<NewId(e, 1), NewId(e, 2)>>]

\* self.ys = self.ys[:2], then
\* if len(self.dys) == 4: self.dcps = [0*_y for _y in self.ys]
after_runge_kutta(e) ==
    IF Len(e.dys) = 4
    THEN Collect(fresh_dcps(Collect([e EXCEPT !.ys = first_two(@)])))
    ELSE Collect([e EXCEPT !.ys = first_two(@)])

\* one derivative more is awaited before the evolver counts as warm
bootstrapping_late(e) == Len(e.dys) < 5

\* if len(self.dys) < 4
bootstrapping(e) == Len(e.dys) < 4

\* len(self.dys) with self.dys None raises TypeError
len_dys_raises(e) == e.kind = "ABM" /\ e.unset

\* EvolverABM.do_step
abm_do_step(e) ==
    IF len_dys_raises(e)
    THEN [done |-> e, raises |-> Raising("TypeError", e)]
    ELSE IF bootstrapping(e)
    THEN [done |-> after_runge_kutta(do_step_runge_kutta(e).done),
          raises |-> do_step_runge_kutta(e).raises]
    ELSE do_step_ABM_numexpr(e)

\* EvolverABM.y (the property): self.ys[0]; EvolverSplit.y: the attribute
Y(e) == IF e.kind = "ABM" THEN e.ys[1] ELSE e.y

\* EvolverABM.y (the setter): self.ys = [y0]; self.dcps = None; self.dys = None
set_y(e, y0) ==
    [e EXCEPT !.ys = <<y0>>, !.dcps = <<>>, !.dys = <<>>, !.unset = TRUE]

----------------------------------------------------------------------------
(* EvolverSplit *)

\* EvolverSplit.__init__ (with EvolverBase.__init__ and init)
split_init(e, cp) ==
    IF e.strategy = "general"
    THEN \* self._nonlinear_tmp_state = y.copy()
         [Copy(base_init(e, cp), Y_IN, NewId(base_init(e, cp), 1))
            EXCEPT !.y = base_y(e, cp), !.nltmp = NewId(base_init(e, cp), 1)]
    ELSE [base_init(e, cp) EXCEPT !.y = base_y(e, cp)]

\* y.apply_exp_K(dt=d, t=tt)
apply_exp_K(e, s, d, tt) ==
    SetData(Logged(e, Entry("apply_exp_K", s, d, tt, 0)), s,
            exp_K(Data(e, s), d, tt))

\* y.apply_exp_V(dt=d, t=tt, ...) with the potential pot
apply_exp_V(e, s, d, tt, pot) ==
    SetData(Logged(e, Entry("apply_exp_V", s, d, tt, pot)), s,
            exp_V(Data(e, s), d, pot))

\* y.apply_exp_V(dt=d, t=tt, state=x): the potential comes from the state x
apply_exp_V_state(e, s, d, tt, x) ==
    apply_exp_V(e, s, d, tt, state_potential(Data(e, x), tt))

\* V = y.get_potentials(t=tt): the call is logged, the value kept as V
get_potentials(e, s, tt) ==
    [Logged(e, Entry("get_potentials", s, 0, tt, 0))
        EXCEPT !.V = potentials_of(Data(e, s), tt)]

\* the difference of the potentials is not halved
correct_potentials_whole(e, s, tt) ==
    [Logged(e, Entry("get_potentials", s, 0, tt, 0))
        EXCEPT !.V = Mul(Sub(@, potentials_of(Data(e, s), tt)), Neg(1))]

\* V -= y.get_potentials(t=tt); V *= -0.5
correct_potentials(e, s, tt) ==
    [Logged(e, Entry("get_potentials", s, 0, tt, 0))
        EXCEPT !.V = Mul(Sub(@, potentials_of(Data(e, s), tt)), Neg(Inv2))]

\* y.apply_exp_V(dt=d, t=tt, potentials=V)
apply_exp_V_potentials(e, s, d, tt) == apply_exp_V(e, s, d, tt, e.V)

\* the scratch state is made anew by a copy() instead of being overwritten
copy_from_fresh(e, s, x) == Copy(e, x, s)

\* ArrayStateMixin.copy_from: s takes the data and the attributes of x
copy_from(e, s, x) ==
    [e EXCEPT !.heap[s] = [e.heap[x] EXCEPT !.writeable = e.heap[s].writeable]]

\* the first half step of K does not advance the time
mid_t_unstaggered(tt, d, first) == tt

\* if first: ...; t += 0.5*dt: the time the potential stage is applied with
mid_t(tt, d, first) == IF first THEN tt + half(d) ELSE tt

\* EvolverSplit.do_step
split_do_step(e, first, final) ==
    LET d == e.dt
        yy == e.y
        \* if first: y.apply_exp_K(dt=dt/2, t=t); t += 0.5*dt
        a1 == IF first THEN apply_exp_K(e, yy, half(d), e.t) ELSE e
        t1 == mid_t(e.t, d, first)
        \* y.linear: y.apply_exp_V(dt=dt, state=None, t=t)
        lin == apply_exp_V(a1, yy, d, t1, linear_potential(t1))
        \* self.use_nonlinear_potentials
        p1 == get_potentials(a1, yy, t1)
        p2 == apply_exp_V_potentials(p1, yy, d, t1)
        p3 == correct_potentials(p2, yy, t1 + d)
        p4 == apply_exp_V_potentials(p3, yy, d, t1)
        \* general: y1 = self._nonlinear_tmp_state
        y1 == e.nltmp
        g1 == copy_from(a1, y1, yy)
        g2 == apply_exp_V_state(g1, y1, d, t1, y1)
        g3 == axpy(g2, y1, yy, 1)
        g4 == scale(g3, y1, Inv2)
        g5 == apply_exp_V_state(g4, yy, d, t1, y1)
        a2 == IF e.strategy = "linear" THEN lin
              ELSE IF e.strategy = "potentials" THEN p4 ELSE g5
        vraises == IF e.strategy = "linear" THEN Raising("apply_exp_V", a1)
                   ELSE IF e.strategy = "potentials"
                   THEN Raising("get_potentials", a1) \o Raising("apply_exp_V", p1)
                        \o Raising("get_potentials", p2)
                        \o Raising("apply_exp_V", p3)
                   ELSE Raising("apply_exp_V", g1) \o Raising("apply_exp_V", g4)
        \* if final: y.apply_exp_K(dt=dt/2, t=t) else: y.apply_exp_K(dt=dt, t=t)
        a3 == IF final THEN apply_exp_K(a2, yy, half(d), t1)
              ELSE apply_exp_K(a2, yy, d, t1)
        t2 == IF final THEN t1 + half(d) ELSE t1 + d
        a4 == IF e.normalize THEN do_normalize(a3, yy) ELSE a3
    IN [done |-> [a4 EXCEPT !.heap[yy].t = t2, !.t = t2],
        raises |-> (IF first THEN Raising("apply_exp_K", e) ELSE <<>>)
                   \o vraises \o Raising("apply_exp_K", a2)
                   \o (IF e.normalize THEN Raising("normalize", a3) ELSE <<>>)]

----------------------------------------------------------------------------
(* The caller: construction, then evolve calls *)

\* the steps arguments the caller passes
StepsArgs == {None} \cup (0..MaxSteps)

\* the data of the state the caller passes
InitialData == {1, 7}
\* the starting times and the time steps (in ticks)
InitialTimes == {0, 3}
TimeSteps == {2, 4}

Init ==
    /\ pc = "new"
    /\ err = "none"
    /\ calls = 0
    /\ steps = 0
    /\ kt = 0
    /\ t0 = 0
    /\ copy \in BOOLEAN
    /\ kind \in {"ABM", "Split"}
    /\ t \in InitialTimes
    /\ dt \in TimeSteps
    /\ normalize \in BOOLEAN
    /\ numexpr \in (IF kind = "ABM" THEN BOOLEAN ELSE {FALSE})
    /\ no_runge_kutta \in (IF kind = "ABM" THEN BOOLEAN ELSE {FALSE})
    /\ strategy \in (IF kind = "ABM" THEN {"general"}
                     ELSE {"linear", "potentials", "general"})
    /\ ys = <<>>
    /\ dys = <<>>
    /\ dcps = <<>>
    /\ tmp = 0
    /\ y = 0
    /\ nltmp = 0
    /\ \E v \in InitialData :
         heap = [i \in 1..NBuf |->
                   IF i = Y_IN THEN [data |-> v, t |-> 0, writeable |-> TRUE]
                   ELSE NoState]
    /\ log = <<>>
    /\ unset = FALSE
    /\ created = 0
    /\ max_copies = 1
    /\ objs = NoObjs
    /\ locks = <<>>
    /\ ret = NoCall
    /\ nops = 0

\* EvolverABM(y, dt, t, ...) or EvolverSplit(y, dt, t, ...)
Construct ==
    /\ pc = "new"
    /\ \E r \in {Collect(IF kind = "ABM" THEN abm_init(Self, copy)
                              ELSE split_init(Self, copy))} : Commit(r)
    /\ pc' = "idle"
    /\ UNCHANGED <<err, calls, steps, kt, t0, copy, ret, nops>>

\* the assertion lets a single step through
steps_ok_weak(n) == n # None /\ n > 0

\* assert steps > 1 (None > 1 is False)
steps_ok(n) == n # None /\ n > 1

\* getattr(self.y, 'pre_evolve_hook', lambda: None)(): the hook is logged with
\* the state it is called on and the t that state carries; the log of the
\* running evolve call starts here
pre_evolve_hook(e) ==
    [e EXCEPT !.log = <<Entry("pre_evolve_hook", Y(e), 0, e.heap[Y(e)].t, 0)>>]

\* the time of the state is left as it is
set_y_t_skipped(e) == e

\* self.y.t = self.t
set_y_t(e) == [e EXCEPT !.heap[Y(e)].t = e.t]

\* getattr(self.y, 'post_evolve_hook', lambda: None)()
post_evolve_hook(e) ==
    Logged(e, Entry("post_evolve_hook", Y(e), 0, e.heap[Y(e)].t, 0))

\* EvolverBase.evolve up to the first do_step, the assertion failing
EvolveRejected ==
    /\ pc = "idle"
    /\ calls < MaxEvolves
    /\ \E n \in StepsArgs :
         /\ ~steps_ok(n)
         /\ steps' = n
    /\ t0' = t
    /\ err' = "AssertionError"
    /\ calls' = calls + 1
    /\ UNCHANGED <<pc, kt, copy, kind, t, dt, normalize, numexpr, no_runge_kutta,
                   ys, dys, dcps, tmp, y, strategy, nltmp, heap, log,
                   unset, created, max_copies, objs, locks, ret, nops>>

\* EvolverBase.evolve up to the first do_step: t0 = self.t, pre_evolve_hook
EvolveBegin ==
    /\ pc = "idle"
    /\ calls < MaxEvolves
    /\ \E n \in StepsArgs :
         /\ steps_ok(n)
         /\ steps' = n
    /\ t0' = t
    /\ kt' = 0
    /\ err' = "none"
    /\ calls' = calls + 1
    /\ log' = pre_evolve_hook(Self).log
    /\ pc' = "first"
    /\ UNCHANGED <<copy, kind, t, dt, normalize, numexpr, no_runge_kutta,
                   ys, dys, dcps, tmp, y, strategy, nltmp, heap,
                   unset, created, max_copies, objs, locks, ret, nops>>

\* the loop runs to steps instead of steps-1
in_loop_long(k, n) == k < n

\* for kt in xrange(1, steps-1): the loop body runs once more
in_loop(k, n) == k < n - 1

\* the call after the first one is flagged first as well
first_flag_twice == pc = "first" \/ kt = 1

\* the flags of the do_step call evolve makes next: self.do_step(first=True),
\* self.do_step() in the loop, self.do_step(final=True) after it
first_flag == pc = "first"
final_flag == pc = "loop" /\ ~in_loop(kt, steps)

\* an EvolverABM starts its bootstrap again when first is set
do_step_restart(e, first, final) ==
    IF e.kind = "ABM"
    THEN abm_do_step(
            [Logged(e, [Entry("do_step", 0, 0, 0, 0)
                          EXCEPT !.first = first, !.final = final])
                EXCEPT !.ys = IF first THEN <<e.ys[1]>> ELSE @,
                       !.dys = IF first THEN <<>> ELSE @])
    ELSE split_do_step(Logged(e, [Entry("do_step", 0, 0, 0, 0)
                                    EXCEPT !.first = first, !.final = final]),
                       first, final)

\* self.do_step(first=first, final=final) on the evolver e, the call logged:
\* EvolverABM.do_step ignores the flags
do_step(e, first, final) ==
    IF e.kind = "ABM"
    THEN abm_do_step(Logged(e, [Entry("do_step", 0, 0, 0, 0)
                                  EXCEPT !.first = first, !.final = final]))
    ELSE split_do_step(Logged(e, [Entry("do_step", 0, 0, 0, 0)
                                    EXCEPT !.first = first, !.final = final]),
                       first, final)

\* the do_step calls k+1 .. n of evolve(n), all returning
RECURSIVE evolve_from(_, _, _)
evolve_from(e, k, n) ==
    IF k >= n THEN e
    ELSE evolve_from(Collect(do_step(e, k = 0, k = n - 1).done), k + 1, n)

\* EvolverBase.evolve(n), n > 1, every call returning: the hook, do_step with
\* first=True, the loop, do_step with final=True, self.y.t = self.t, the hook
evolve(e, n) ==
    post_evolve_hook(set_y_t(evolve_from(pre_evolve_hook(e), 0, n)))

\* the do_step call evolve makes next, on the evolver with that call logged
next_step == do_step(Self, first_flag, final_flag)

\* one do_step call of evolve that returns; kt counts the calls made, which
\* is also the loop variable of the next loop iteration
DoStep ==
    /\ pc \in {"first", "loop"}
    /\ ~len_dys_raises(Self)
    /\ \E r \in {Collect(next_step.done)} : Commit(r)
    /\ kt' = kt + 1
    /\ pc' = IF final_flag THEN "end" ELSE "loop"
    /\ UNCHANGED <<err, calls, steps, t0, copy, ret, nops>>

\* one do_step call of evolve in which a call on a state raises: the
\* exception leaves evolve
DoStepRaises ==
    /\ pc \in {"first", "loop"}
    /\ \E rs \in {next_step.raises} : \E k \in 1..Len(rs) :
         /\ Commit(Collect(rs[k].e))
         /\ err' = rs[k].op
    /\ pc' = "failed"
    /\ UNCHANGED <<kt, calls, steps, t0, copy, ret, nops>>

\* assert np.allclose(self.t, t0 + steps * self.dt)
time_ok == t = t0 + steps * dt

\* EvolverBase.evolve after the last do_step
EvolveEnd ==
    /\ pc = "end"
    /\ IF time_ok
       THEN /\ \E r \in {post_evolve_hook(set_y_t(Self))} :
                    heap' = r.heap /\ log' = r.log
            /\ err' = "none"
       ELSE /\ err' = "AssertionError"
            /\ UNCHANGED <<heap, log>>
    /\ pc' = "idle"
    /\ UNCHANGED <<calls, steps, kt, t0, copy, kind, t, dt, normalize, numexpr,
                   no_runge_kutta, ys, dys, dcps, tmp, y, strategy, nltmp,
                   unset, created, max_copies, objs, locks, ret, nops>>

\* the caller assigns a state to the y of an EvolverABM between evolve calls:
\* evolver.y = y
AssignY ==
    /\ pc = "idle"
    /\ kind = "ABM"
    /\ \E r \in {Collect(set_y(Self, Y_IN))} : Commit(r)
    /\ UNCHANGED <<pc, err, calls, steps, kt, t0, copy, ret, nops>>

Next ==
    \/ Construct
    \/ AssignY
    \/ EvolveRejected
    \/ EvolveBegin
    \/ DoStep
    \/ DoStepRaises
    \/ EvolveEnd

Spec == Init /\ [][Next]_vars

----------------------------------------------------------------------------
(* The states on their own: a caller holds two states a and b of one of the *)
(* mixins, makes calls on them and binds what the calls return to r.        *)

Mixins == {"Array", "Arrays", "Multi"}
StateData == {7}
Scalars == {3}
Values == {5}

Named == {n \in DOMAIN objs : objs[n].mixin # "none"}
Keys(o) == 1..Len(objs[o].comps)

InitS ==
    /\ pc = "states"
    /\ err = "none"
    /\ calls = 0
    /\ steps = 0
    /\ kt = 0
    /\ t0 = 0
    /\ copy = FALSE
    /\ kind = "none"
    /\ t = 0
    /\ dt = 2
    /\ normalize = FALSE
    /\ numexpr = FALSE
    /\ no_runge_kutta = FALSE
    /\ strategy = "general"
    /\ ys = <<>>
    /\ dys = <<>>
    /\ dcps = <<>>
    /\ tmp = 0
    /\ y = 0
    /\ nltmp = 0
    /\ log = <<>>
    /\ unset = FALSE
    /\ created = 0
    /\ locks = <<>>
    /\ ret = NoCall
    /\ nops = 0
    /\ \E m \in Mixins, v \in StateData :
         /\ objs = [n \in {"a", "b", "r"} |->
                      IF n = "r" THEN NoObj
                      ELSE [mixin |-> m, t |-> 0,
                            comps |-> IF m = "Array"
                                      THEN (IF n = "a" THEN <<Y_IN>> ELSE <<3>>)
                                      ELSE (IF n = "a" THEN <<Y_IN, 2>>
                                            ELSE <<3, 4>>)]]
         /\ heap = [i \in 1..NBuf |->
                      IF i \in Range(objs["a"].comps) \cup Range(objs["b"].comps)
                      THEN [data |-> Mod(v + 2 * i), t |-> 0, writeable |-> TRUE]
                      ELSE NoState]
         /\ max_copies = Cardinality({i \in 1..NBuf : heap[i] # NoState})

\* a call named op on the state o is over: r0 holds its outcome, res names
\* the state the call returned
Returned(r0, op, o, res) ==
    /\ pc = "states"
    /\ \E c \in {Collect(r0.e)} : Commit(c)
    /\ ret' = [op |-> op, on |-> o, err |-> r0.err,
               res |-> IF r0.err = "none" THEN res ELSE ""]
    /\ nops' = nops + 1
    /\ UNCHANGED <<pc, err, calls, steps, kt, t0, copy>>

\* o.writeable = b
SetWriteable ==
    /\ nops < MaxOps
    /\ \E o \in Named \ {"b"}, b \in BOOLEAN :
         Returned(Ok(st_set_writeable(Self, o, b)), "writeable", o, "")

\* with o.lock: entered
LockEnter ==
    /\ pc = "states"
    /\ Len(locks) < MaxLocks
    /\ \E o \in {"a"} :
         /\ \E c \in {st_lock_enter(Self, o)} : Commit(c)
         /\ ret' = [op |-> "lock", on |-> o, res |-> "", err |-> "none"]
    /\ UNCHANGED <<pc, err, calls, steps, kt, t0, copy, nops>>

\* the innermost with block is left
LockExit ==
    /\ pc = "states"
    /\ locks # <<>>
    /\ \E c \in {st_lock_exit(Self)} : Commit(c)
    /\ ret' = [op |-> "unlock", on |-> Last(locks).obj, res |-> "",
               err |-> "none"]
    /\ UNCHANGED <<pc, err, calls, steps, kt, t0, copy, nops>>

\* o.axpy(b, a)
AxpyOp ==
    /\ nops < MaxOps
    /\ \E o \in Named \ {"b"}, a \in Scalars :
         Returned(st_axpy(Self, o, "b", a), "axpy", o, "")

\* o.scale(f)
ScaleOp ==
    /\ nops < MaxOps
    /\ \E o \in Named \ {"b"}, f \in Scalars :
         Returned(st_scale(Self, o, f), "scale", o, "")

\* o.copy_from(b)
CopyFromOp ==
    /\ nops < MaxOps
    /\ \E o \in Named \ {"b"} :
         Returned(st_copy_from(Self, o, "b"), "copy_from", o, "")

\* o[...] = v on an ArrayStateMixin, o[k][...] = v on the others
SetItemOp ==
    /\ nops < MaxOps
    /\ \E o \in Named \ {"b"} : \E k \in Keys(o), v \in Values :
         Returned(st_setitem(Self, o, k, v), "setitem", o, "")

\* o[k] = value on an ArraysStateMixin or a MultiStateMixin
ReplaceItemOp ==
    /\ nops < MaxOps
    /\ \E o \in Named \ {"b"} : \E k \in Keys(o), v \in Values :
         /\ objs[o].mixin # "Array"
         /\ Returned(st_replace(Self, o, k, v), "replace", o, "")

\* r = o.copy()
CopyOp ==
    /\ nops < MaxOps
    /\ \E o \in {"a", "b"} :
         Returned(Ok(st_copy(Self, o, "r")), "copy", o, "r")

\* r = o.empty()
EmptyOp ==
    /\ nops < MaxOps
    /\ \E o \in {"a", "b"} :
         Returned(Ok(st_empty(Self, o, "r")), "empty", o, "r")

\* r = a + b
AddOp == nops < MaxOps /\ Returned(st_add(Self, "a", "b", "r"), "__add__", "a", "r")

\* r = a - b
SubOp == nops < MaxOps /\ Returned(st_sub(Self, "a", "b", "r"), "__sub__", "a", "r")

\* r = a * f and r = f * a
MulOp ==
    /\ nops < MaxOps
    /\ \E f \in Scalars :
         Returned(st_mul(Self, "a", f, "r"), "__mul__", "a", "r")

\* r = a / f
DivOp ==
    /\ nops < MaxOps
    /\ \E f \in Scalars :
         Returned(st_truediv(Self, "a", f, "r"), "__truediv__", "a", "r")

\* r = -a
NegOp == nops < MaxOps /\ Returned(st_neg(Self, "a", "r"), "__neg__", "a", "r")

\* +a (StateMixin.__pos__: return self)
PosOp == nops < MaxOps /\ Returned(Ok(Self), "__pos__", "a", "a")

\* a += b
IAddOp == nops < MaxOps /\ Returned(st_iadd(Self, "a", "b"), "__iadd__", "a", "a")

\* a -= b
ISubOp == nops < MaxOps /\ Returned(st_isub(Self, "a", "b"), "__isub__", "a", "a")

\* a *= f
IMulOp ==
    /\ nops < MaxOps
    /\ \E f \in Scalars :
         Returned(st_imul(Self, "a", f), "__imul__", "a", "a")

\* a /= f
IDivOp ==
    /\ nops < MaxOps
    /\ \E f \in Scalars :
         Returned(st_itruediv(Self, "a", f), "__itruediv__", "a", "a")

\* r = EvolverBase.get_dy(a, t)
GetDy ==
    /\ nops < MaxOps
    /\ Returned(st_get_dy(Self, "a", t, "r"), "get_dy", "a", "r")

\* EvolverBase.get_dy(a, t), a.compute_dy raises
GetDyRaises ==
    /\ nops < MaxOps
    /\ Returned(st_get_dy_raises(Self, "a", t, "r"), "get_dy", "a", "r")

NextS ==
    \/ SetWriteable
    \/ LockEnter
    \/ LockExit
    \/ AxpyOp
    \/ ScaleOp
    \/ CopyFromOp
    \/ SetItemOp
    \/ ReplaceItemOp
    \/ CopyOp
    \/ EmptyOp
    \/ AddOp
    \/ SubOp
    \/ MulOp
    \/ DivOp
    \/ NegOp
    \/ PosOp
    \/ IAddOp
    \/ ISubOp
    \/ IMulOp
    \/ IDivOp
    \/ GetDy
    \/ GetDyRaises

SpecS == InitS /\ [][NextS]_vars

----------------------------------------------------------------------------
(* Properties *)

\* positions of the log holding a call of op
Calls(op) == {i \in 1..Len(log) : log[i].op = op}

SetMax(S) == CHOOSE m \in S : \A n \in S : n <= m
SetMin(S) == CHOOSE m \in S : \A n \in S : m <= n

\* the stepping method the last do_step call went into
LastMethod == log[SetMax(Calls("do_step")) + 1].op

\* all do_step calls of an evolve call have returned
Stepped == pc = "end" \/ (pc = "idle" /\ calls > 0 /\ err = "none")

\* this step of the model is a do_step call that returns
StepReturns == pc \in {"first", "loop"} /\ pc' \in {"loop", "end"}

\* this step of the model is a do_step call that raises
StepRaises == pc \in {"first", "loop"} /\ pc' = "failed"

\* this step of the model is an assignment to the y of the evolver
YAssigned == pc = "idle" /\ pc' = "idle" /\ calls' = calls /\ unset'

\* C1: for both evolvers, once the do_step calls of evolve(steps), steps > 1,
\* have returned, t = t0 + steps*dt with t0 the time when the call began: the
\* assertion that ends evolve holds and evolve returns without an error, on
\* the first and on later evolve calls.
C1_TimeBookkeeping ==
    /\ pc = "end" => t = t0 + steps * dt
    /\ (pc = "idle" /\ calls > 0 /\ steps # None /\ steps > 1) =>
           (err = "none" /\ t = t0 + steps * dt)

\* a second evolve call of three steps has returned on a split evolver
C1_Witness ==
    /\ kind = "Split"
    /\ pc = "idle"
    /\ err = "none"
    /\ calls = 2
    /\ steps = 3
    /\ t0 > 3

\* C2: an EvolverABM with Runge-Kutta bootstrap takes a Runge-Kutta step on
\* every do_step that starts with fewer than 4 derivatives; once 4 are stored
\* it holds the 2 most recent states and 2 correction terms, every later
\* do_step is an ABM step that keeps 4 derivatives, and of what evolve does
\* nothing but do_step changes the history, so the progress carries over
\* between evolve calls.
C2_BootstrapThenABM ==
    [][(kind = "ABM" /\ ~no_runge_kutta /\ pc # "new") =>
        /\ StepReturns =>
            /\ Len(dys) < 4 => LastMethod' = "do_step_runge_kutta"
            /\ (Len(dys) < 4 /\ Len(dys') >= 4) =>
                   /\ Len(dys') = 4 /\ Len(ys') = 2 /\ Len(dcps') = 2
                   /\ ys'[2] = ys[1]
                   /\ ys'[1] \notin Range(ys)
            /\ Len(dys) >= 4 =>
                   /\ LastMethod' \in {"do_step_ABM", "do_step_ABM_numexpr"}
                   /\ Len(dys') = 4 /\ Len(ys') = 2 /\ Len(dcps') = 2
        /\ (~StepReturns /\ ~StepRaises /\ ~YAssigned) =>
               (ys' = ys /\ dys' = dys /\ dcps' = dcps)]_vars

\* the bootstrap was finished by the second evolve call, which then took an
\* ABM step
C2_Witness ==
    /\ kind = "ABM"
    /\ ~no_runge_kutta
    /\ calls = 2
    /\ pc \in {"loop", "end"}
    /\ Calls("do_step_runge_kutta") # {}
    /\ LastMethod \in {"do_step_ABM", "do_step_ABM_numexpr"}

\* C3: at every step boundary of an EvolverABM a warm evolver (4 or more
\* derivatives) has exactly 2 states, 4 derivatives and 2 correction terms,
\* and a bootstrapping one has 1 or 2 states.
C3_HistorySizes ==
    (kind = "ABM" /\ pc \in {"idle", "first", "loop", "end"}) =>
        IF Len(dys) >= 4
        THEN Len(ys) = 2 /\ Len(dys) = 4 /\ Len(dcps) = 2
        ELSE Len(ys) >= 1 /\ Len(ys) <= 2

\* a bootstrapping evolver whose states have been truncated to two
C3_Witness ==
    /\ kind = "ABM"
    /\ pc = "loop"
    /\ Len(dys) = 3
    /\ Len(ys) = 2

\* the data of the n-th newest state, derivative and correction term
Ys(n) == heap[ys[n]].data
Dys(n) == heap[dys[n]].data
Dcps(n) == heap[dcps[n]].data

\* the predicted state, the correction term and the new state of C4, from
\* the history and time the step starts with
C4_m ==
    Add(Add(Div(Add(Ys(1), Ys(2)), 2),
            Mul(Div(Mod(dt), 48),
                Sub(Add(Sub(Mul(119, Dys(1)), Mul(99, Dys(2))),
                        Mul(69, Dys(3))),
                    Mul(17, Dys(4))))),
        Dcps(1))
C4_dcp ==
    Mul(Div(Mul(Mod(dt), 161), Mul(48, 170)),
        Add(Sub(Add(Sub(Mul(17, compute_dy(C4_m, t + dt)), Mul(68, Dys(1))),
                    Mul(102, Dys(2))),
                Mul(68, Dys(3))),
            Mul(17, Dys(4))))
C4_new == Sub(Add(C4_m, C4_dcp), Dcps(1))

\* this step of the model is a warm ABM step that returns
WarmStepReturns == StepReturns /\ kind = "ABM" /\ Len(dys) >= 4

HistoryValues(e) ==
    <<[i \in 1..Len(e.ys) |-> Data(e, e.ys[i])],
      [i \in 1..Len(e.dys) |-> Data(e, e.dys[i])],
      [i \in 1..Len(e.dcps) |-> Data(e, e.dcps[i])],
      e.t>>

\* a warm evolver with the fused path, between two steps
WarmFused ==
    /\ kind = "ABM"
    /\ numexpr
    /\ pc \in {"idle", "first", "loop", "end"}
    /\ Len(dys) >= 4

\* C5: from the same history, time, dt and normalize setting the fused ABM
\* step and the direct ABM step leave the same values in ys, dys and dcps and
\* the same t.
C5_FusedEqualsDirect ==
    WarmFused =>
        HistoryValues(do_step_ABM_fused(Self).done)
            = HistoryValues(do_step_ABM(Self).done)

\* the log of states' calls restricted to the propagators applied to y
Kpos == Calls("apply_exp_K")
Vpos == {i \in Calls("apply_exp_V") : log[i].on = y}

\* the sum of the durations of the kinetic applications among the first n
\* entries of the log
RECURSIVE KineticSum(_)
KineticSum(n) ==
    IF n = 0 THEN 0
    ELSE KineticSum(n - 1)
            + (IF log[n].op = "apply_exp_K" THEN log[n].dt ELSE 0)

\* C6: evolve(n) of EvolverSplit applies K(dt/2), V, K(dt), ..., V, K(dt/2):
\* n+1 kinetic applications of which only the first and the last are half
\* steps, a potential stage of duration dt between any two consecutive ones
\* and nowhere else, the kinetic durations summing to n*dt.
C6_SplitOrder ==
    (kind = "Split" /\ Stepped) =>
        /\ Cardinality(Kpos) = steps + 1
        /\ \A i \in Kpos :
              IF i = SetMin(Kpos) \/ i = SetMax(Kpos)
              THEN 2 * log[i].dt = dt
              ELSE log[i].dt = dt
        /\ \A i \in Vpos :
              log[i].dt = dt /\ SetMin(Kpos) < i /\ i < SetMax(Kpos)
        /\ \A i, j \in Kpos :
              (i < j /\ ~\E k \in Kpos : i < k /\ k < j) =>
                  \E v \in Vpos : i < v /\ v < j
        /\ KineticSum(Len(log)) = steps * dt

\* evolve(4) has made its steps on a state that provides get_potentials
C6_Witness ==
    /\ kind = "Split"
    /\ strategy = "potentials"
    /\ pc = "end"
    /\ steps = 4

\* C7: evolve(steps) calls do_step exactly steps times; only the first call
\* has first=True, only the last has final=True, no call has both.
C7_StepFlags ==
    Stepped =>
        /\ Cardinality(Calls("do_step")) = steps
        /\ \A i \in Calls("do_step") :
              /\ log[i].first <=> (i = SetMin(Calls("do_step")))
              /\ log[i].final <=> (i = SetMax(Calls("do_step")))
              /\ ~(log[i].first /\ log[i].final)

\* evolve(4) has made its steps on an ABM evolver
C7_Witness ==
    /\ kind = "ABM"
    /\ pc = "end"
    /\ steps = 4

\* C8: a compute_dy that raises in a warm EvolverABM step leaves ys, dys and
\* dcps with the entries, order and lengths they had when the step started.
C8_RingKeptOnRaise ==
    [][(StepRaises /\ kind = "ABM" /\ Len(dys) >= 4 /\ err' = "compute_dy") =>
        (ys' = ys /\ dys' = dys /\ dcps' = dcps)]_vars

\* C9: a call on the state that raises part-way through a do_step leaves the
\* evolver's t and the data of its current state y as they were when the step
\* began.
C9_StepAtomic ==
    [][StepRaises =>
        /\ t' = t
        /\ Y(Self)' = Y(Self)
        /\ heap'[Y(Self)].data = heap[Y(Self)].data]_vars

\* C10: evolve(steps) with steps <= 1 or steps None fails with an error and
\* changes nothing: no step, no hook, t, y and the ABM history as before.
C10_BadStepsRejected ==
    [][(pc = "idle" /\ calls' = calls + 1 /\ (steps' = None \/ steps' <= 1)) =>
        /\ err' = "AssertionError"
        /\ pc' = "idle"
        /\ UNCHANGED <<t, dt, ys, dys, dcps, tmp, y, nltmp, heap, log>>]_vars

\* evolve(1) has been rejected on an ABM evolver that is half-way through
\* its bootstrap
C10_Witness ==
    /\ kind = "ABM"
    /\ pc = "idle"
    /\ err = "AssertionError"
    /\ steps = 1
    /\ calls = 2
    /\ Len(dys) = 3

\* C13: assigning a state to EvolverABM.y leaves no derivative and no
\* correction term of the old history, puts the evolver in the bootstrapping
\* state, and the next do_step is a Runge-Kutta step from the assigned state.
C13_AssignResets ==
    [][/\ YAssigned =>
            /\ ys' = <<Y_IN>>
            /\ Range(dys') \cup Range(dcps') = {}
            /\ Len(dys') < 4
       /\ (kind = "ABM" /\ unset /\ pc \in {"first", "loop"}) =>
            /\ pc' # "failed"
            /\ log'[Len(log) + 2].op = "do_step_runge_kutta"
            /\ ys'[2] = Y_IN]_vars

\* the states an EvolverABM holds
Held == Range(ys) \cup Range(dys) \cup Range(dcps) \cup ({tmp} \ {0})

\* the evolver is warm and between two steps
Warm ==
    /\ kind = "ABM"
    /\ pc \in {"idle", "first", "loop", "end"}
    /\ Len(dys) >= 4

\* C14: a warm EvolverABM holds 8 distinct states without the fused path and
\* 9 with it, a warm step creates no state, and with no_runge_kutta=True and
\* copy=False no more than 8 (9) states are ever alive at the same time.
C14_WarmBuffers ==
    [][/\ Warm => Cardinality(Held) = (IF numexpr THEN 9 ELSE 8)
       /\ (Warm /\ (StepReturns \/ StepRaises)) => created' = created
       /\ (kind = "ABM" /\ no_runge_kutta /\ ~copy) =>
              max_copies <= (IF numexpr THEN 9 ELSE 8)]_vars

\* a second evolve call has stepped the evolver built with
\* no_runge_kutta=True and copy=False, on the fused path
C14_Witness ==
    /\ kind = "ABM"
    /\ no_runge_kutta
    /\ ~copy
    /\ numexpr
    /\ calls = 2
    /\ pc = "end"
    /\ steps = 4
    /\ max_copies = 9

\* C15 as stated: with the Runge-Kutta bootstrap no more than 8 (direct) or
\* 9 (fused) states are ever alive at the same time.
C15_AsStated ==
    (kind = "ABM" /\ ~no_runge_kutta) =>
        max_copies <= (IF numexpr THEN 9 ELSE 8)

\* C15 amended: with the Runge-Kutta bootstrap no more than 10 (direct) or
\* 11 (fused) states are ever alive at the same time, the state passed to the
\* constructor included; once the evolver is warm the states alive are the 8
\* (9) it holds and the state passed to the constructor.
C15_BootstrapPeak ==
    (kind = "ABM" /\ ~no_runge_kutta) =>
        /\ max_copies <= (IF numexpr THEN 11 ELSE 10)
        /\ Warm => Live(Self) = Held \cup {Y_IN}

\* the bootstrap has been completed and has reached the peak
C15_Witness ==
    /\ kind = "ABM"
    /\ ~no_runge_kutta
    /\ numexpr
    /\ pc = "end"
    /\ Len(dys) = 4
    /\ max_copies = 11

\* C16: an EvolverSplit built with copy=False creates no state for a linear
\* state and for one with get_potentials, and one, in the constructor, for a
\* general nonlinear state; that scratch state stays the same object and no
\* do_step creates a state.
C16_SplitMemory ==
    [][(kind = "Split" /\ ~copy) =>
        /\ pc # "new" =>
              /\ created = (IF strategy = "general" THEN 1 ELSE 0)
              /\ max_copies = (IF strategy = "general" THEN 2 ELSE 1)
              /\ Live(Self) = {Y_IN} \cup ({nltmp} \ {0})
              /\ (strategy = "general") <=> (nltmp # 0)
        /\ (StepReturns \/ StepRaises) =>
              (created' = created /\ nltmp' = nltmp /\ y' = y)]_vars

\* a second evolve call has stepped a split evolver built with copy=False
\* on a general nonlinear state
C16_Witness ==
    /\ kind = "Split"
    /\ ~copy
    /\ strategy = "general"
    /\ calls = 2
    /\ pc = "end"
    /\ steps = 4

\* C19: an EvolverABM built with no_runge_kutta=True is warm when the
\* constructor returns, no compute_dy having been called: 2 states equal to
\* the initial state, 4 zero derivatives, 2 zero correction terms; it never
\* takes a Runge-Kutta step, its first do_step is an ABM step.
C19_StationaryStart ==
    [][(kind = "ABM" /\ no_runge_kutta) =>
        /\ pc = "new" =>
              /\ Len(ys') = 2 /\ Len(dys') = 4 /\ Len(dcps') = 2
              /\ \A i \in 1..2 : heap'[ys'[i]].data = heap[Y_IN].data
              /\ \A i \in 1..4 : heap'[dys'[i]].data = 0
              /\ \A i \in 1..2 : heap'[dcps'[i]].data = 0
              /\ Cardinality(Range(ys') \cup Range(dys') \cup Range(dcps')) = 8
              /\ log' = <<>>
        /\ (StepReturns /\ ~unset) =>
              /\ log'[Len(log) + 2].op \in {"do_step_ABM", "do_step_ABM_numexpr"}
              /\ \A i \in 1..Len(log') : log'[i].op # "do_step_runge_kutta"]_vars

\* the first do_step of an evolver built with no_runge_kutta=True has returned
C19_Witness ==
    /\ kind = "ABM"
    /\ no_runge_kutta
    /\ calls = 1
    /\ pc = "loop"
    /\ kt = 1
    /\ Calls("do_step_ABM") # {}

\* C20: an evolve call that returns has called pre_evolve_hook once, on the
\* state that was current when the call began and before any do_step and any
\* compute_dy, and post_evolve_hook once, after the last do_step, on the
\* current state with its t already set to the evolver's t.
C20_Hooks ==
    [][/\ (pc = "idle" /\ pc' = "first") =>
              /\ Len(log') = 1
              /\ log'[1].op = "pre_evolve_hook"
              /\ log'[1].on = (IF kind = "ABM" THEN ys[1] ELSE y)
       /\ (pc = "end" /\ pc' = "idle" /\ err' = "none") =>
              /\ Calls("pre_evolve_hook")' = {1}
              /\ Calls("post_evolve_hook")' = {Len(log')}
              /\ Calls("post_evolve_hook") = {}
              /\ log'[Len(log')].on = (IF kind = "ABM" THEN ys[1] ELSE y)
              /\ log'[Len(log')].t = t
              /\ heap'[log'[Len(log')].on].t = t
              /\ Cardinality(Calls("do_step")') = steps]_vars

\* a second evolve call has returned on an ABM evolver whose current state
\* is not the one the call began with
C20_Witness ==
    /\ kind = "ABM"
    /\ pc = "idle"
    /\ calls = 2
    /\ err = "none"
    /\ Calls("post_evolve_hook") # {}
    /\ log[1].on # log[Len(log)].on

\* the writeable flag and the data of the state named o
Writeable(o) == st_writeable(Self, o)
Value(o) == [k \in 1..Len(objs[o].comps) |-> heap[objs[o].comps[k]].data]
Flags(o) == [k \in 1..Len(objs[o].comps) |-> heap[objs[o].comps[k]].writeable]

\* this step is a call of op on the state o
Called(op, o) == nops' = nops + 1 /\ ret'.op = op /\ ret'.on = o

\* C11: on a state of any of the three mixins whose writeable flag is False
\* (set directly or by an active lock block), each of axpy, scale, copy_from
\* and element assignment (s[...] = v, s[k][...] = v, s[k] = v) raises an
\* error and leaves the arrays of the state and their data as they were.
C11_ReadOnlyRejects ==
    [][\A o \in {"a", "r"} :
        \A op \in {"axpy", "scale", "copy_from", "setitem", "replace"} :
          (Called(op, o) /\ ~Writeable(o)) =>
             /\ ret'.err # "none"
             /\ objs'[o] = objs[o]
             /\ Value(o)' = Value(o)]_vars

\* C12: every compute_dy call that get_dy makes sees the state read-only;
\* when get_dy returns or raises, the state's writeable flag is what it was
\* before the call and the lock blocks around the call are still active,
\* whatever their depth; leaving a lock block puts back the flag saved on
\* entry.
C12_GetDyLock ==
    [][/\ Called("get_dy", "a") =>
            /\ Writeable("a")' = Writeable("a")
            /\ locks' = locks
            /\ Len(log') > Len(log)
            /\ \A i \in (Len(log) + 1)..Len(log') :
                  log'[i].op = "compute_dy" /\ ~log'[i].writeable
            /\ Value("a")' = Value("a")
       /\ (ret'.op = "unlock" /\ Len(locks') < Len(locks)) =>
            Writeable("a")' = Last(locks).saved]_vars

\* get_dy raised inside two nested lock blocks, the state was read-only
\* during compute_dy and is read-only now
C12_Witness ==
    /\ pc = "states"
    /\ Len(locks) = 2
    /\ ret.op = "get_dy"
    /\ ret.err = "compute_dy"
    /\ log # <<>>
    /\ ~Last(log).writeable
    /\ ~Writeable("a")

\* C17: copy() and empty() of a state of any of the three mixins return a
\* writeable state whose arrays are all new, whatever the original's flag;
\* the original's flags and data are unchanged, a copy holds the original's
\* data, and a later in-place call on one state leaves the data of the others
\* unchanged.
C17_CopyIndependent ==
    [][/\ \A o \in {"a", "b"} :
           (Called("copy", o) \/ Called("empty", o)) =>
              /\ ret'.err = "none"
              /\ Writeable("r")'
              /\ objs'["r"].mixin = objs[o].mixin
              /\ objs'["r"].t = objs[o].t
              /\ Len(objs'["r"].comps) = Len(objs[o].comps)
              /\ Cardinality(Range(objs'["r"].comps)) = Len(objs[o].comps)
              /\ Range(objs'["r"].comps) \cap Live(Self) = {}
              /\ objs'[o] = objs[o]
              /\ Flags(o)' = Flags(o)
              /\ Value("a")' = Value("a")
              /\ Value("b")' = Value("b")
              /\ Called("copy", o) => Value("r")' = Value(o)
       /\ \A o \in {"a", "r"} :
           \A op \in {"axpy", "scale", "copy_from", "setitem", "replace",
                      "__iadd__", "__isub__", "__imul__", "__itruediv__"} :
             Called(op, o) =>
                \A n \in {"a", "b", "r"} \ {o} :
                   objs[n].mixin # "none" => Value(n)' = Value(n)]_vars

\* a copy of a read-only state has been scaled: the copy holds three times
\* the data of the original
C17_Witness ==
    /\ pc = "states"
    /\ nops = 2
    /\ objs["a"].mixin = "Multi"
    /\ ~Writeable("a")
    /\ ret.op = "scale"
    /\ ret.on = "r"
    /\ ret.err = "none"
    /\ Value("r") = [k \in 1..2 |-> Mul(Value("a")[k], 3)]

\* C18: a+b, a-b, a*f, a/f and -a are new states holding the sum, the
\* difference, the product, the quotient and the negative of the data, +a is
\* a itself, and the operands are unchanged; a += b, a -= b, a *= f, a /= f
\* on a writeable a put the result into the arrays of a and return a itself,
\* leaving b unchanged.
C18_Arithmetic ==
    [][/\ \A op \in {"__add__", "__sub__", "__mul__", "__truediv__", "__neg__"} :
           Called(op, "a") =>
              /\ ret'.err = "none"
              /\ ret'.res = "r"
              /\ Range(objs'["r"].comps) \cap Live(Self) = {}
              /\ objs'["a"] = objs["a"] /\ objs'["b"] = objs["b"]
              /\ Value("a")' = Value("a") /\ Value("b")' = Value("b")
              /\ Flags("a")' = Flags("a")
              /\ DOMAIN Value("r")' = DOMAIN Value("a")
              /\ \A k \in DOMAIN Value("a") : \E f \in Scalars :
                    CASE op = "__add__" ->
                           Value("r")'[k] = Add(Value("a")[k], Value("b")[k])
                      [] op = "__sub__" ->
                           Add(Value("r")'[k], Value("b")[k]) = Value("a")[k]
                      [] op = "__mul__" ->
                           Value("r")'[k] = Mul(Value("a")[k], f)
                      [] op = "__truediv__" ->
                           Mul(Value("r")'[k], f) = Value("a")[k]
                      [] op = "__neg__" ->
                           Add(Value("r")'[k], Value("a")[k]) = 0
       /\ Called("__pos__", "a") =>
              ret'.res = "a" /\ heap' = heap /\ objs' = objs
       /\ \A op \in {"__iadd__", "__isub__", "__imul__", "__itruediv__"} :
           (Called(op, "a") /\ Writeable("a")) =>
              /\ ret'.err = "none"
              /\ ret'.res = "a"
              /\ objs' = objs
              /\ Value("b")' = Value("b")
              /\ \A k \in DOMAIN Value("a") : \E f \in Scalars :
                    CASE op = "__iadd__" ->
                           Value("a")'[k] = Add(Value("a")[k], Value("b")[k])
                      [] op = "__isub__" ->
                           Add(Value("a")'[k], Value("b")[k]) = Value("a")[k]
                      [] op = "__imul__" ->
                           Value("a")'[k] = Mul(Value("a")[k], f)
                      [] op = "__itruediv__" ->
                           Mul(Value("a")'[k], f) = Value("a")[k]]_vars

\* r = a - b on a state made of two states: r holds the difference, which
\* is not the sum, and a is as it was
C18_Witness ==
    /\ pc = "states"
    /\ nops = 1
    /\ objs["a"].mixin = "Multi"
    /\ ret.op = "__sub__"
    /\ ret.res = "r"
    /\ Value("r") = [k \in 1..2 |-> Sub(Value("a")[k], Value("b")[k])]
    /\ Value("r") # [k \in 1..2 |-> Add(Value("a")[k], Value("b")[k])]

\* C21: with copy=True neither the constructor nor any evolve call (returning
\* or failing) changes the data, the time tag or the writeable flag of the
\* state the caller passed in, and as long as the caller assigns no state to
\* it, evolver.y is another object than that state.
C21_CallerStateUntouched ==
    [][copy =>
        /\ heap'[Y_IN] = heap[Y_IN]
        /\ (pc' # "new" /\ ~unset') => Y(Self)' # Y_IN]_vars

\* two evolve calls have returned on an evolver built with copy=True and
\* t # 0: its state has moved on, the caller's state has the data, the time
\* tag 0 and the flag it was passed in with
C21_Witness ==
    /\ copy
    /\ pc = "idle"
    /\ calls = 2
    /\ err = "none"
    /\ steps > 1
    /\ t0 > 3
    /\ heap[Y_IN].t = 0
    /\ heap[Y_IN].writeable
    /\ heap[Y_IN].data \in InitialData
    /\ heap[Y(Self)].data # heap[Y_IN].data
    /\ heap[Y(Self)].t = t

\* the time the evolver was constructed with (the time steps are even numbers
\* of ticks) and the number of steps an EvolverABM has completed since
InitialT == CHOOSE x \in InitialTimes : (t - x) % 2 = 0
StepsTaken == (t - InitialT) \div dt

\* C22: on a freshly constructed EvolverABM with no_runge_kutta=False the
\* do_step calls 1 to 4 are Runge-Kutta steps and the fifth do_step is an ABM
\* predictor-corrector step.
C22_FourRungeKutta ==
    [][(kind = "ABM" /\ ~no_runge_kutta /\ ~unset /\ StepReturns) =>
        /\ StepsTaken < 4 => LastMethod' = "do_step_runge_kutta"
        /\ StepsTaken = 4 =>
              LastMethod' \in {"do_step_ABM", "do_step_ABM_numexpr"}]_vars

\* this step of the model is a Runge-Kutta step that returns
RungeKuttaStepReturns ==
    StepReturns /\ kind = "ABM" /\ ~unset /\ Len(dys) < 4

\* the classical fourth-order Runge-Kutta update of the data v at time tt
\* with the step d: v + h/6*(k1 + 2*k2 + 2*k3 + k4)
C23_k1(v, tt, d) == compute_dy(v, tt)
C23_k2(v, tt, d) ==
    compute_dy(Add(v, Mul(Div(Mod(d), 2), C23_k1(v, tt, d))), tt + d \div 2)
C23_k3(v, tt, d) ==
    compute_dy(Add(v, Mul(Div(Mod(d), 2), C23_k2(v, tt, d))), tt + d \div 2)
C23_k4(v, tt, d) ==
    compute_dy(Add(v, Mul(Mod(d), C23_k3(v, tt, d))), tt + d)
C23_rk4(v, tt, d) ==
    Add(v, Mul(Div(Mod(d), 6),
               Add(Add(C23_k1(v, tt, d), Mul(2, C23_k2(v, tt, d))),
                   Add(Mul(2, C23_k3(v, tt, d)), C23_k4(v, tt, d)))))

\* C23 as stated: the state a Runge-Kutta step inserts as ys[0] equals
\* y + h/6*(k1 + 2*k2 + 2*k3 + k4), y being the former ys[0].
C23_AsStated ==
    [][RungeKuttaStepReturns => Ys(1)' = C23_rk4(Ys(1), t, dt)]_vars

\* C23 amended: the state a Runge-Kutta step inserts as ys[0] equals
\* y + h/6*(k1 + 2*k2 + 2*k3 + k4) with normalize=False and the normalized
\* y + h/6*(k1 + 2*k2 + 2*k3 + k4) with normalize=True; the former ys[0] is
\* kept unchanged as ys[1].
C23_RungeKuttaStep ==
    [][RungeKuttaStepReturns =>
        /\ Ys(1)' = (IF normalize THEN normalized(C23_rk4(Ys(1), t, dt))
                     ELSE C23_rk4(Ys(1), t, dt))
        /\ Ys(2)' = Ys(1)
        /\ t' = t + dt]_vars

\* a Runge-Kutta step that reused the stored derivative as its first stage
\* has returned, without normalization, and has changed the data
C23_Witness ==
    /\ kind = "ABM"
    /\ ~normalize
    /\ ~unset
    /\ pc \in {"loop", "end"}
    /\ kt >= 2
    /\ LastMethod = "do_step_runge_kutta"
    /\ Len(ys) = 2
    /\ Ys(1) # Ys(2)

\* the number of the step (0 for the first) the i-th entry of the log of the
\* running evolve call belongs to
StepOf(i) == Cardinality({j \in Calls("do_step") : j < i}) - 1

\* C24: in an evolve(n) of EvolverSplit started at t0, every apply_exp_V of
\* step k = 0 .. n-1 has the time argument t0 + (k + 1/2)*dt; after k
\* completed steps, 1 <= k < n, the evolver's t is t0 + (k + 1/2)*dt, and
\* after the final step it is t0 + n*dt.
C24_SplitTimes ==
    (kind = "Split" /\ pc \in {"first", "loop", "end", "failed"}) =>
        /\ \A i \in Calls("apply_exp_V") :
              2 * log[i].t = 2 * t0 + (2 * StepOf(i) + 1) * dt
        /\ pc = "first" => t = t0
        /\ pc = "loop" =>
              /\ 1 <= kt /\ kt < steps
              /\ 2 * t = 2 * t0 + (2 * kt + 1) * dt
              /\ heap[y].t = t
        /\ pc = "end" => kt = steps /\ t = t0 + steps * dt

\* the second evolve call on a general nonlinear state is between its third
\* and its fourth step
C24_Witness ==
    /\ kind = "Split"
    /\ strategy = "general"
    /\ calls = 2
    /\ pc = "loop"
    /\ steps = 4
    /\ kt = 3
    /\ Cardinality(Calls("apply_exp_V")) = 6

\* this step of the model is a do_step call of an EvolverSplit that returns
SplitStepReturns == StepReturns /\ kind = "Split"

\* the positions in the log after the step of the calls of op the step made
NewCalls(op) ==
    {i \in (Len(log) + 1)..Len(log') : log'[i].op = op}

\* the data of y and the time when the potential stage of the step begins
C25_v == IF log'[Len(log) + 1].first
         THEN exp_K(heap[y].data, dt \div 2, t) ELSE heap[y].data
C25_t == IF log'[Len(log) + 1].first THEN t + dt \div 2 ELSE t

\* the potentials V0, (V1 - V0)/2 of a state that provides get_potentials
C25_V0 == potentials_of(C25_v, C25_t)
C25_V1 == potentials_of(exp_V(C25_v, dt, C25_V0), C25_t + dt)

\* the scratch state of a general nonlinear state: a copy of y propagated by
\* its own potential, then averaged with y
C25_scratch ==
    Div(Add(exp_V(C25_v, dt, state_potential(C25_v, C25_t)), C25_v), 2)

\* the data of y after the potential stage
C25_after ==
    IF strategy = "linear" THEN exp_V(C25_v, dt, linear_potential(C25_t))
    ELSE IF strategy = "potentials"
    THEN exp_V(exp_V(C25_v, dt, C25_V0), dt, Div(Sub(C25_V1, C25_V0), 2))
    ELSE exp_V(C25_v, dt, state_potential(C25_scratch, C25_t))

\* the data of y after the step
C25_end ==
    IF log'[Len(log) + 1].final THEN exp_K(C25_after, dt \div 2, C25_t)
    ELSE exp_K(C25_after, dt, C25_t)

\* C25: in every EvolverSplit step a linear y gets one apply_exp_V(dt) with
\* the state-independent potential; a y that provides get_potentials gets
\* two, with V0 = get_potentials(t) and with (V1 - V0)/2, V1 =
\* get_potentials(t + dt) taken after the first; otherwise the scratch state
\* is set to a copy of y, gets apply_exp_V(dt) using itself, is averaged with
\* y, and y gets one apply_exp_V(dt) using the scratch state, unmodified
\* until then.
C25_PotentialStage ==
    [][SplitStepReturns =>
        /\ \A i \in NewCalls("apply_exp_V") : log'[i].dt = dt
        /\ strategy = "linear" =>
              /\ Cardinality(NewCalls("apply_exp_V")) = 1
              /\ NewCalls("get_potentials") = {}
              /\ \A i \in NewCalls("apply_exp_V") :
                    log'[i].on = y /\ log'[i].arg = linear_potential(C25_t)
        /\ strategy = "potentials" =>
              /\ Cardinality(NewCalls("apply_exp_V")) = 2
              /\ Cardinality(NewCalls("get_potentials")) = 2
              /\ \A i \in NewCalls("apply_exp_V") :
                    /\ log'[i].on = y
                    /\ log'[i].arg = (IF i = SetMin(NewCalls("apply_exp_V"))
                                      THEN C25_V0
                                      ELSE Div(Sub(C25_V1, C25_V0), 2))
              /\ \A i \in NewCalls("get_potentials") :
                    /\ log'[i].on = y
                    /\ IF i = SetMin(NewCalls("get_potentials"))
                       THEN /\ log'[i].t = C25_t
                            /\ i < SetMin(NewCalls("apply_exp_V"))
                       ELSE /\ log'[i].t = C25_t + dt
                            /\ SetMin(NewCalls("apply_exp_V")) < i
                            /\ i < SetMax(NewCalls("apply_exp_V"))
        /\ strategy = "general" =>
              /\ Cardinality(NewCalls("apply_exp_V")) = 2
              /\ NewCalls("get_potentials") = {}
              /\ \A i \in NewCalls("apply_exp_V") :
                    IF i = SetMin(NewCalls("apply_exp_V"))
                    THEN /\ log'[i].on = nltmp
                         /\ log'[i].arg = state_potential(C25_v, C25_t)
                    ELSE /\ log'[i].on = y
                         /\ log'[i].arg = state_potential(C25_scratch, C25_t)
              /\ heap'[nltmp].data = C25_scratch
        /\ heap'[y].data = (IF normalize THEN normalized(C25_end)
                            ELSE C25_end)]_vars

\* two steps have been taken on a state that provides get_potentials, the
\* correction of the second step being a non-zero potential
C25_Witness ==
    /\ kind = "Split"
    /\ strategy = "potentials"
    /\ calls = 1
    /\ pc = "loop"
    /\ kt = 2
    /\ Cardinality(Calls("apply_exp_V")) = 4
    /\ log[SetMax(Calls("apply_exp_V"))].arg # 0

\* C26: with the Runge-Kutta bootstrap and copy=False no more than 10 states
\* (11 with the fused path) are alive at the same time, temporaries of the
\* steps and the state passed to the constructor included: after the
\* construction, which leaves 2 (3), in and after every Runge-Kutta step, at
\* the transition to the warm evolver and in and after every later step.
C26_PeakWithoutCopy ==
    (kind = "ABM" /\ ~no_runge_kutta /\ ~copy) =>
        /\ Cardinality(Live(Self)) <= max_copies
        /\ max_copies <= (IF numexpr THEN 11 ELSE 10)
        /\ (pc = "idle" /\ calls = 0) =>
              max_copies = (IF numexpr THEN 3 ELSE 2)

\* the evolver built with copy=False and without the fused path has finished
\* its bootstrap in the first evolve call and taken ABM steps in the second:
\* the peak of 10 has been reached
C26_Witness ==
    /\ kind = "ABM"
    /\ ~no_runge_kutta
    /\ ~copy
    /\ ~numexpr
    /\ calls = 2
    /\ pc = "idle"
    /\ err = "none"
    /\ Len(dys) = 4
    /\ max_copies = 10

\* this step of the model is a do_step call of an EvolverABM that returns
ABMStepReturns == StepReturns /\ kind = "ABM" /\ ~unset

\* the states a warm step recycles: the oldest state, derivative and
\* correction term, and the scratch state of the fused path
Retired ==
    IF Len(dys) >= 4
    THEN {Last(ys), Last(dys), Last(dcps)} \cup ({tmp} \ {0})
    ELSE {}

\* C27: a completed EvolverABM step shifts the history by one: the former
\* ys[0] is ys[1], the former dys[k] is dys[k+1] as far as the ring reaches,
\* after a warm step the former dcps[0] is dcps[1], all with the data they
\* had; of the states that stay in ys, in dys or in dcps only the retired
\* oldest entries and the scratch state are written, by a Runge-Kutta step
\* none (so not dys[0], its first stage).
C27_HistoryShift ==
    [][ABMStepReturns =>
        /\ Len(ys') = 2
        /\ ys'[2] = ys[1]
        /\ heap'[ys[1]].data = heap[ys[1]].data
        /\ ys'[1] # ys[1]
        /\ \A k \in 1..Len(dys) :
              k + 1 <= Len(dys') =>
                 dys'[k + 1] = dys[k] /\ heap'[dys[k]].data = heap[dys[k]].data
        /\ Len(dys') = (IF Len(dys) = 0 THEN 2
                        ELSE IF Len(dys) < 4 THEN Len(dys) + 1 ELSE 4)
        /\ dys'[1] \notin Range(Front(dys))
        /\ Len(dys) >= 4 =>
              /\ Len(dcps') = 2
              /\ dcps'[2] = dcps[1]
              /\ heap'[dcps[1]].data = heap[dcps[1]].data
        /\ \A i \in (Range(ys) \cap Range(ys')) \cup (Range(dys) \cap Range(dys'))
                     \cup (Range(dcps) \cap Range(dcps')) :
              heap'[i].data # heap[i].data => i \in Retired]_vars

\* a fused ABM step has been completed after a Runge-Kutta bootstrap in the
\* same evolve call
C27_Witness ==
    /\ kind = "ABM"
    /\ ~no_runge_kutta
    /\ numexpr
    /\ calls = 1
    /\ pc = "end"
    /\ kt = 4
    /\ LastMethod = "do_step_ABM_numexpr"
    /\ Len(dys) = 4
    /\ Ys(1) # Ys(2)

\* C28: at every step boundary of an EvolverABM, after construction with
\* either start option and after every completed step on the direct and on
\* the fused path, the entries of ys, dys and dcps and the scratch state _tmp
\* (which exists exactly with the fused path) are existing, pairwise distinct
\* states.
C28_DistinctBuffers ==
    (kind = "ABM" /\ ~unset /\ pc \in {"idle", "first", "loop", "end"}) =>
        /\ Cardinality(Held) =
              Len(ys) + Len(dys) + Len(dcps) + (IF tmp # 0 THEN 1 ELSE 0)
        /\ numexpr <=> tmp # 0
        /\ \A i \in Held : i \in 1..NBuf /\ heap[i] # NoState

\* the second evolve call has returned on an evolver with the stationary
\* start and the fused path: it holds nine distinct states
C28_Witness ==
    /\ kind = "ABM"
    /\ no_runge_kutta
    /\ numexpr
    /\ ~unset
    /\ pc = "idle"
    /\ calls = 2
    /\ err = "none"
    /\ steps = 3
    /\ Cardinality(Held) = 9

\* C29: after every completed EvolverABM step (Runge-Kutta, direct or fused
\* ABM, normalize True or False) dys[0] is the derivative of ys[0] as it is
\* stored, at the evolver's new time t.
C29_NewestDerivative ==
    [][ABMStepReturns =>
        (t' = t + dt /\ Dys(1)' = compute_dy(Ys(1)', t'))]_vars

\* an EvolverABM between two evolve calls, the caller having assigned no
\* state to its y
ABMIdle == kind = "ABM" /\ pc = "idle" /\ ~unset

\* evolve(2) has returned on a fresh EvolverABM with the Runge-Kutta
\* bootstrap: the bootstrap is unfinished
SplitBootstrap ==
    ABMIdle /\ ~no_runge_kutta /\ calls = 1 /\ err = "none" /\ Len(dys) = 3

\* C30: from any EvolverABM between evolve calls, evolve(a) followed by
\* evolve(b) leaves the same t and the same data in ys, dys and dcps as
\* evolve(a+b), for all a, b > 1 (a + b up to MaxSteps + 2); an evolve(2) that
\* ends within the bootstrap leaves the evolver one Runge-Kutta step away
\* from being warm.
C30_SplitRuns ==
    /\ ABMIdle =>
          \A a, b \in 2..MaxSteps :
             a + b <= MaxSteps + 2 =>
                HistoryValues(evolve(evolve(Self, a), b))
                   = HistoryValues(evolve(Self, a + b))
    /\ SplitBootstrap =>
          /\ Len(evolve(Self, 2).dys) = 4
          /\ HistoryValues(evolve(Self, 2)) # HistoryValues(Self)

\* an evolve(2) has stopped a fresh EvolverABM within its Runge-Kutta
\* bootstrap, from where a second evolve call finishes the bootstrap and
\* takes an ABM step
C30_Witness ==
    /\ SplitBootstrap
    /\ steps = 2
    /\ normalize
    /\ Len(evolve(Self, 3).dys) = 4

====
